---- MODULE Spec2Model ----
(***************************************************************************)
(* Model of velox/type/Filter.cpp: the scalar-column filters, the integer  *)
(* value-set factory createBigintValues, the range (statistics) tests and  *)
(* the intersection algebra mergeWith.                                     *)
(*                                                                         *)
(* A filter is a record whose "kind" field is the FilterKind tag.  A       *)
(* failed VELOX_CHECK / VELOX_UNREACHABLE (an exception in the code) is    *)
(* the record Failure(what); every caller propagates it.                   *)
(*                                                                         *)
(* int64_t is modelled as a two's complement integer of IntBits bits, so   *)
(* that MinInt64, MaxInt64 and the overflow of max - min are reachable.    *)
(***************************************************************************)
EXTENDS Integers, Sequences, FiniteSets, TLC

\* ------------------------------------------------------------------ bounds

\* Width of the modelled int64_t.
IntBits == 13
\* Longest vector of values handed to createBigintValues or to a constructor.
MaxValues == 3
\* Largest number of child ranges of a BigintMultiRange input.
MaxRanges == 2
\* Largest number of child ranges of a BigintMultiRange probed with testInt64.
MaxTestRanges == 3
\* Longest byte string.
MaxBytesLen == 2

\* Iterations of one merge loop that are followed.
MaxLoopSteps == 6

\* ------------------------------------------------------------ int64 domain

MinInt64 == -(2 ^ (IntBits - 1))
MaxInt64 == (2 ^ (IntBits - 1)) - 1
Int64 == MinInt64 .. MaxInt64

\* Two's complement wrap-around of a mathematical integer into int64_t.
WrapInt64(x) == ((x - MinInt64) % (2 ^ IntBits)) + MinInt64

\* Conversion of an int64_t to the unsigned type of the same width (size_t).
ToUnsigned(x) == x % (2 ^ IntBits)

\* Mutant of SubOverflow: a plain max - min that detects no overflow.
SubOverflow_Undetected(a, b) == FALSE

\* __builtin_sub_overflow(a, b, &r): TRUE iff a - b does not fit int64_t.
SubOverflow(a, b) == (a - b) \notin Int64

\* std::max and std::min.
Max2(x, y) == IF x < y THEN y ELSE x

Min2(x, y) == IF y < x THEN y ELSE x

\* Filter.h: the value that marks an empty slot of the hash table.
kEmptyMarker == -275

\* Filter.h: the odd multiplier of the hash function (low 16 bits).
M == 59797

\* ------------------------------------------------------------ filter values

Failure(what) == [kind |-> "Failure", what |-> what]

IsFailure(f) == f.kind = "Failure"

AlwaysFalse == [kind |-> "kAlwaysFalse", nullAllowed_ |-> FALSE]

AlwaysTrue == [kind |-> "kAlwaysTrue", nullAllowed_ |-> TRUE]

IsNull == [kind |-> "kIsNull", nullAllowed_ |-> TRUE]

IsNotNull == [kind |-> "kIsNotNull", nullAllowed_ |-> FALSE]

BoolValue(value, nullAllowed) ==
  [kind |-> "kBoolValue", value_ |-> value, nullAllowed_ |-> nullAllowed]

\* BigintRange(lower, upper, nullAllowed): lower <= upper is a precondition.
BigintRange(lower, upper, nullAllowed) ==
  IF lower > upper
    THEN Failure("BigintRange: lower > upper")
    ELSE [kind |-> "kBigintRange", lower_ |-> lower, upper_ |-> upper,
          nullAllowed_ |-> nullAllowed]

testNull(f) == f.nullAllowed_

nullOrFalse(nullAllowed) == IF nullAllowed THEN IsNull ELSE AlwaysFalse

\* ------------------------------------------------- BigintValuesUsingBitmask

\* bitmask_ is the set of the indices i with bitmask_[i] = true;
\* bitmaskSize is bitmask_.size().
BigintValuesUsingBitmask(min, max, values, nullAllowed) ==
  IF ~(min < max)
    THEN Failure("min must be less than max")
  ELSE IF ~(Len(values) > 1)
    THEN Failure("values must contain at least 2 entries")
  ELSE [kind |-> "kBigintValuesUsingBitmask", min_ |-> min, max_ |-> max,
        bitmaskSize |-> max - min + 1,
        bitmask_ |-> {i \in 0 .. max - min : \E k \in 1 .. Len(values) : values[k] - min = i},
        nullAllowed_ |-> nullAllowed]

Bitmask_testInt64(f, value) ==
  IF value < f.min_ \/ value > f.max_
    THEN FALSE
    ELSE (value - f.min_) \in f.bitmask_

\* ----------------------------------------------- BigintValuesUsingHashTable

RECURSIVE FloorLog2(_)
\* (uint32_t)std::log2(n) for n >= 1.
FloorLog2(n) == IF n < 2 THEN 0 ELSE 1 + FloorLog2(n \div 2)

\* (value * M) & (size - 1), size a power of two.
HashPosition(value, size) == (value * M) % size

RECURSIVE InsertProbe(_, _, _, _, _)
\* The loop "for (i = position; i < position + size; i++)" of the constructor,
\* at iteration k: put value in the first empty slot.  Slot index is 0-based
\* in the code, 1-based in the sequence.
InsertProbe(table, value, position, size, k) ==
  IF k >= size
    THEN table
    ELSE LET index == (position + k) % size
         IN IF table[index + 1] = kEmptyMarker
              THEN [table EXCEPT ![index + 1] = value]
              ELSE InsertProbe(table, value, position, size, k + 1)

RECURSIVE InsertAll(_, _, _, _)
\* The loop "for (auto value : values)" of the constructor from values[k] on.
InsertAll(table, values, size, k) ==
  IF k > Len(values)
    THEN table
    ELSE IF values[k] = kEmptyMarker
      THEN InsertAll(table, values, size, k + 1)
      ELSE InsertAll(
             InsertProbe(table, values[k], HashPosition(values[k], size), size, 0),
             values, size, k + 1)

HashTableSize(n) == 2 ^ FloorLog2(n * 3)

BigintValuesUsingHashTable(min, max, values, nullAllowed) ==
  IF ~(min < max)
    THEN Failure("min must be less than max")
  ELSE IF ~(Len(values) > 1)
    THEN Failure("values must contain at least 2 entries")
  ELSE LET size == HashTableSize(Len(values))
       IN [kind |-> "kBigintValuesUsingHashTable", min_ |-> min, max_ |-> max,
           hashTable_ |-> InsertAll([i \in 1 .. size |-> kEmptyMarker], values, size, 1),
           containsEmptyMarker_ |-> \E k \in 1 .. Len(values) : values[k] = kEmptyMarker,
           nullAllowed_ |-> nullAllowed]

RECURSIVE LookupProbe(_, _, _, _, _)
\* The probe loop of testInt64 at iteration k.
LookupProbe(table, value, pos, size, k) ==
  IF k >= size
    THEN FALSE
    ELSE LET l == table[((pos + k) % size) + 1]
         IN IF l = kEmptyMarker THEN FALSE
            ELSE IF l = value THEN TRUE
            ELSE LookupProbe(table, value, pos, size, k + 1)

\* Mutant of HashTable_testInt64: containsEmptyMarker_ is not consulted.
HashTable_testInt64_NoMarker(f, value) ==
  IF value < f.min_ \/ value > f.max_
    THEN FALSE
    ELSE LET size == Len(f.hashTable_)
         IN LookupProbe(f.hashTable_, value, HashPosition(value, size), size, 0)

HashTable_testInt64(f, value) ==
  IF f.containsEmptyMarker_ /\ value = kEmptyMarker
    THEN TRUE
  ELSE IF value < f.min_ \/ value > f.max_
    THEN FALSE
  ELSE LET size == Len(f.hashTable_)
       IN LookupProbe(f.hashTable_, value, HashPosition(value, size), size, 0)

\* ------------------------------------------------------------- BigintRange

BigintRange_testInt64(f, value) == value >= f.lower_ /\ value <= f.upper_

BigintRange_testInt64Range(f, min, max, hasNull) ==
  IF hasNull /\ f.nullAllowed_
    THEN TRUE
    ELSE ~(min > f.upper_ \/ max < f.lower_)

\* -------------------------------------------------------- BigintMultiRange

\* ranges_ is the sequence of child BigintRange filters, lowerBounds_ the
\* sequence of their lower bounds.
BigintMultiRange(ranges, nullAllowed) ==
  IF Len(ranges) = 0
    THEN Failure("ranges is empty")
  ELSE IF ~(Len(ranges) > 1)
    THEN Failure("should contain at least 2 ranges")
  ELSE LET lowerBounds == [i \in 1 .. Len(ranges) |-> ranges[i].lower_]
       IN IF \E i \in 2 .. Len(lowerBounds) : ~(lowerBounds[i] >= ranges[i - 1].upper_)
            THEN Failure("bigint ranges must not overlap")
            ELSE [kind |-> "kBigintMultiRange", ranges_ |-> ranges,
                  lowerBounds_ |-> lowerBounds, nullAllowed_ |-> nullAllowed]

RECURSIVE LowerBound(_, _, _, _)
\* std::lower_bound(values.begin(), values.end(), value) by bisection:
\* first is the 0-based start and len the length of the remaining window.
LowerBound(values, value, first, len) ==
  IF len <= 0
    THEN first
    ELSE LET half == len \div 2
             middle == first + half
         IN IF values[middle + 1] < value
              THEN LowerBound(values, value, middle + 1, len - half - 1)
              ELSE LowerBound(values, value, first, half)

binarySearch(values, value) ==
  LET it == LowerBound(values, value, 0, Len(values))
  IN IF it = Len(values) \/ values[it + 1] # value
       THEN -it - 1
       ELSE it

\* Mutant of BigintMultiRange_testInt64: delegates to the first child instead
\* of the child before the insertion place.
BigintMultiRange_testInt64_FirstChild(f, value) ==
  LET i == binarySearch(f.lowerBounds_, value)
  IN IF i >= 0
       THEN TRUE
       ELSE LET place == (-i) - 1
            IN IF place = 0
                 THEN FALSE
                 ELSE BigintRange_testInt64(f.ranges_[1], value)

BigintMultiRange_testInt64(f, value) ==
  LET i == binarySearch(f.lowerBounds_, value)
  IN IF i >= 0
       THEN TRUE
       ELSE LET place == (-i) - 1
            IN IF place = 0
                 THEN FALSE
                 ELSE BigintRange_testInt64(f.ranges_[place], value)

BigintMultiRange_testInt64Range(f, min, max, hasNull) ==
  IF hasNull /\ f.nullAllowed_
    THEN TRUE
    ELSE \E k \in 1 .. Len(f.ranges_) :
           BigintRange_testInt64Range(f.ranges_[k], min, max, hasNull)

\* ------------------------------------------------------ value-set range tests

\* Mutant of Bitmask_testInt64Range: the page is pruned already when its min
\* equals the filter's max.
Bitmask_testInt64Range_OffByOne(f, min, max, hasNull) ==
  IF hasNull /\ f.nullAllowed_
    THEN TRUE
  ELSE IF min = max
    THEN Bitmask_testInt64(f, min)
  ELSE ~(min >= f.max_ \/ max < f.min_)

Bitmask_testInt64Range(f, min, max, hasNull) ==
  IF hasNull /\ f.nullAllowed_
    THEN TRUE
  ELSE IF min = max
    THEN Bitmask_testInt64(f, min)
  ELSE ~(min > f.max_ \/ max < f.min_)

HashTable_testInt64Range(f, min, max, hasNull) ==
  IF hasNull /\ f.nullAllowed_
    THEN TRUE
  ELSE IF min = max
    THEN HashTable_testInt64(f, min)
  ELSE ~(min > f.max_ \/ max < f.min_)

\* -------------------------------------------------------------- BytesRange

\* A byte string is a sequence of bytes (unsigned char values).
RECURSIVE memcmp(_, _, _, _)
\* memcmp(lhs, rhs, size) from byte k on: the difference of the first pair of
\* bytes that differ, 0 when the first size bytes agree.
memcmp(lhs, rhs, size, k) ==
  IF k > size
    THEN 0
    ELSE IF lhs[k] # rhs[k]
      THEN lhs[k] - rhs[k]
      ELSE memcmp(lhs, rhs, size, k + 1)

compareRanges(lhs, rhs) ==
  LET size == Min2(Len(lhs), Len(rhs))
      compare == memcmp(lhs, rhs, size, 1)
  IN IF compare # 0 THEN compare ELSE Len(lhs) - Len(rhs)

\* BytesRange(lower, lowerUnbounded, lowerExclusive, upper, upperUnbounded,
\* upperExclusive, nullAllowed); lower > upper with both bounds set is fatal.
BytesRange(lower, lowerUnbounded, lowerExclusive, upper, upperUnbounded, upperExclusive, nullAllowed) ==
  IF ~lowerUnbounded /\ ~upperUnbounded /\ compareRanges(lower, upper) > 0
    THEN Failure("BytesRange: lower > upper")
    ELSE [kind |-> "kBytesRange", lower_ |-> lower, upper_ |-> upper,
          lowerUnbounded_ |-> lowerUnbounded, lowerExclusive_ |-> lowerExclusive,
          upperUnbounded_ |-> upperUnbounded, upperExclusive_ |-> upperExclusive,
          singleValue_ |-> (~lowerExclusive /\ ~upperExclusive /\ ~lowerUnbounded
                            /\ ~upperUnbounded /\ lower = upper),
          nullAllowed_ |-> nullAllowed]

BytesRange_testBytes(f, value) ==
  IF f.singleValue_
    THEN IF Len(value) # Len(f.lower_)
           THEN FALSE
           ELSE memcmp(value, f.lower_, Len(value), 1) = 0
  ELSE IF ~f.lowerUnbounded_
          /\ LET compare == compareRanges(value, f.lower_)
             IN compare < 0 \/ (f.lowerExclusive_ /\ compare = 0)
    THEN FALSE
  ELSE IF ~f.upperUnbounded_
    THEN LET compare == compareRanges(value, f.upper_)
         IN compare < 0 \/ (~f.upperExclusive_ /\ compare = 0)
  ELSE TRUE

\* std::optional<std::string_view>
NoBytes == [has_value |-> FALSE]

SomeBytes(value) == [has_value |-> TRUE, value |-> value]

BytesRange_testBytesRange(f, min, max, hasNull) ==
  IF hasNull /\ f.nullAllowed_
    THEN TRUE
  ELSE IF min.has_value /\ max.has_value /\ min.value = max.value
    THEN BytesRange_testBytes(f, min.value)
  ELSE IF f.lowerUnbounded_
    THEN min.has_value /\ compareRanges(min.value, f.upper_) < 0
  ELSE IF f.upperUnbounded_
    THEN max.has_value /\ compareRanges(max.value, f.lower_) > 0
  ELSE IF min.has_value /\ compareRanges(min.value, f.upper_) > 0
    THEN FALSE
  ELSE IF max.has_value /\ compareRanges(max.value, f.lower_) < 0
    THEN FALSE
  ELSE TRUE

\* ------------------------------------------------------- virtual dispatch

\* Filter::testInt64: the variants that do not override it accept no integer.
testInt64(f, value) ==
  CASE f.kind = "kBigintRange" -> BigintRange_testInt64(f, value)
    [] f.kind = "kBigintValuesUsingBitmask" -> Bitmask_testInt64(f, value)
    [] f.kind = "kBigintValuesUsingHashTable" -> HashTable_testInt64(f, value)
    [] f.kind = "kBigintMultiRange" -> BigintMultiRange_testInt64(f, value)
    [] f.kind = "kAlwaysTrue" -> TRUE
    [] OTHER -> FALSE

testInt64Range(f, min, max, hasNull) ==
  CASE f.kind = "kBigintRange" -> BigintRange_testInt64Range(f, min, max, hasNull)
    [] f.kind = "kBigintValuesUsingBitmask" -> Bitmask_testInt64Range(f, min, max, hasNull)
    [] f.kind = "kBigintValuesUsingHashTable" -> HashTable_testInt64Range(f, min, max, hasNull)
    [] f.kind = "kBigintMultiRange" -> BigintMultiRange_testInt64Range(f, min, max, hasNull)
    [] f.kind = "kAlwaysTrue" -> TRUE
    [] OTHER -> FALSE

testBool(f, value) ==
  CASE f.kind = "kBoolValue" -> f.value_ = value
    [] f.kind = "kAlwaysTrue" -> TRUE
    [] OTHER -> FALSE

\* clone(nullAllowed): a deep copy with the null bit replaced.
clone(f, nullAllowed) == [f EXCEPT !.nullAllowed_ = nullAllowed]

\* ------------------------------------------------------- createBigintValues

RECURSIVE MinMaxLoop(_, _, _, _)
\* The loop of createBigintValues that computes <<min, max>>, from values[i] on.
MinMaxLoop(values, i, min, max) ==
  IF i > Len(values)
    THEN <<min, max>>
    ELSE IF values[i] > max
      THEN MinMaxLoop(values, i + 1, min, values[i])
    ELSE IF values[i] < min
      THEN MinMaxLoop(values, i + 1, values[i], max)
    ELSE MinMaxLoop(values, i + 1, min, max)

createBigintValues(values, nullAllowed) ==
  IF Len(values) = 0
    THEN nullOrFalse(nullAllowed)
  ELSE IF Len(values) = 1
    THEN BigintRange(values[1], values[1], nullAllowed)
  ELSE LET mm == MinMaxLoop(values, 2, values[1], values[1])
           min == mm[1]
           max == mm[2]
           overflow == SubOverflow(max, min)
           range == WrapInt64(max - min)
       IN IF ~overflow /\ ToUnsigned(WrapInt64(range + 1)) = Len(values)
            THEN BigintRange(min, max, nullAllowed)
          ELSE IF ~overflow /\ (range < 32 * 64 \/ ToUnsigned(range) < Len(values) * 4 * 64)
            THEN BigintValuesUsingBitmask(min, max, values, nullAllowed)
          ELSE BigintValuesUsingHashTable(min, max, values, nullAllowed)

\* ----------------------------------------------------------------- mergeWith

RECURSIVE mergeWith(_, _)

\* A std::vector built by a loop that did not throw.
Vector(items) == [kind |-> "vector", items |-> items]

\* MultiRange(filters, nullAllowed, nanAllowed): a disjunction of child filters.
MultiRange(filters, nullAllowed, nanAllowed) ==
  [kind |-> "kMultiRange", filters_ |-> filters, nullAllowed_ |-> nullAllowed,
   nanAllowed_ |-> nanAllowed]

AlwaysTrue_mergeWith(this, other) == other

AlwaysFalse_mergeWith(this, other) == AlwaysFalse

IsNull_mergeWith(this, other) ==
  IF testNull(other) THEN IsNull ELSE AlwaysFalse

IsNotNull_mergeWith(this, other) ==
  CASE other.kind \in {"kAlwaysTrue", "kIsNotNull"} -> IsNotNull
    [] other.kind \in {"kAlwaysFalse", "kIsNull"} -> AlwaysFalse
    [] OTHER -> mergeWith(other, this)

BoolValue_mergeWith(this, other) ==
  CASE other.kind \in {"kAlwaysTrue", "kAlwaysFalse", "kIsNull"} -> mergeWith(other, this)
    [] other.kind = "kIsNotNull" -> BoolValue(this.value_, FALSE)
    [] other.kind = "kBoolValue" ->
         LET bothNullAllowed == this.nullAllowed_ /\ testNull(other)
         IN IF testBool(other, this.value_)
              THEN BoolValue(this.value_, bothNullAllowed)
              ELSE nullOrFalse(bothNullAllowed)
    [] OTHER -> Failure("VELOX_UNREACHABLE")

combineBigintRanges(ranges, nullAllowed) ==
  IF Len(ranges) = 0
    THEN nullOrFalse(nullAllowed)
  ELSE IF Len(ranges) = 1
    THEN BigintRange(ranges[1].lower_, ranges[1].upper_, nullAllowed)
  ELSE BigintMultiRange(ranges, nullAllowed)

\* dynamic_cast<BigintRange*>: the filter itself when it is a BigintRange.
toBigintRange(filter) ==
  IF filter.kind = "kBigintRange" THEN filter ELSE [kind |-> "nullptr"]

RECURSIVE BigintRange_mergeRanges(_, _, _, _)
\* BigintRange::mergeWith, case kBigintMultiRange: the loop over the children
\* of the other filter, from child k on.
BigintRange_mergeRanges(this, ranges, k, newRanges) ==
  IF k > Len(ranges)
    THEN Vector(newRanges)
    ELSE LET merged == mergeWith(this, ranges[k])
         IN IF IsFailure(merged)
              THEN merged
            ELSE IF merged.kind = "kBigintRange"
              THEN BigintRange_mergeRanges(this, ranges, k + 1,
                                           Append(newRanges, toBigintRange(merged)))
            ELSE IF merged.kind = "kAlwaysFalse"
              THEN BigintRange_mergeRanges(this, ranges, k + 1, newRanges)
            ELSE Failure("VELOX_CHECK(merged->kind() == FilterKind::kAlwaysFalse)")

BigintRange_mergeWith(this, other) ==
  CASE other.kind \in {"kAlwaysTrue", "kAlwaysFalse", "kIsNull"} -> mergeWith(other, this)
    [] other.kind = "kIsNotNull" -> BigintRange(this.lower_, this.upper_, FALSE)
    [] other.kind = "kBigintRange" ->
         LET bothNullAllowed == this.nullAllowed_ /\ testNull(other)
             lower == Max2(this.lower_, other.lower_)
             upper == Min2(this.upper_, other.upper_)
         IN IF lower <= upper
              THEN BigintRange(lower, upper, bothNullAllowed)
              ELSE nullOrFalse(bothNullAllowed)
    [] other.kind \in {"kBigintValuesUsingBitmask", "kBigintValuesUsingHashTable"} ->
         mergeWith(other, this)
    [] other.kind = "kBigintMultiRange" ->
         LET newRanges == BigintRange_mergeRanges(this, other.ranges_, 1, <<>>)
             bothNullAllowed == this.nullAllowed_ /\ testNull(other)
         IN IF IsFailure(newRanges)
              THEN newRanges
              ELSE combineBigintRanges(newRanges.items, bothNullAllowed)
    [] OTHER -> Failure("VELOX_UNREACHABLE")

RECURSIVE HashTable_keep(_, _, _, _)
\* The loop "for (int64_t v : hashTable_)" from slot k on: appends to
\* valuesToKeep the slots that are not kEmptyMarker and that other accepts.
HashTable_keep(this, other, k, valuesToKeep) ==
  IF k > Len(this.hashTable_)
    THEN valuesToKeep
    ELSE LET v == this.hashTable_[k]
         IN IF v # kEmptyMarker /\ testInt64(other, v)
              THEN HashTable_keep(this, other, k + 1, Append(valuesToKeep, v))
              ELSE HashTable_keep(this, other, k + 1, valuesToKeep)

\* BigintValuesUsingHashTable::mergeWith(min, max, other).
HashTable_mergeWithMinMax(this, min, max, other) ==
  LET bothNullAllowed == this.nullAllowed_ /\ testNull(other)
  IN IF max < min
       THEN nullOrFalse(bothNullAllowed)
     ELSE IF max = min
       THEN IF testInt64(this, min) /\ testInt64(other, min)
              THEN BigintRange(min, min, bothNullAllowed)
              ELSE nullOrFalse(bothNullAllowed)
     ELSE LET marker == IF this.containsEmptyMarker_ /\ testInt64(other, kEmptyMarker)
                          THEN <<kEmptyMarker>>
                          ELSE <<>>
              valuesToKeep == HashTable_keep(this, other, 1, marker)
          IN createBigintValues(valuesToKeep, bothNullAllowed)

RECURSIVE HashTable_mergeRanges(_, _, _, _)
\* BigintValuesUsingHashTable::mergeWith, case kBigintMultiRange: the loop
\* over the children of the other filter, from child k on.
HashTable_mergeRanges(this, ranges, k, valuesToKeep) ==
  IF k > Len(ranges)
    THEN valuesToKeep
    ELSE LET min == Max2(this.min_, ranges[k].lower_)
             max == Min2(this.max_, ranges[k].upper_)
         IN IF min <= max
              THEN HashTable_mergeRanges(this, ranges, k + 1,
                     HashTable_keep(this, ranges[k], 1, valuesToKeep))
              ELSE HashTable_mergeRanges(this, ranges, k + 1, valuesToKeep)

HashTable_mergeWith(this, other) ==
  CASE other.kind \in {"kAlwaysTrue", "kAlwaysFalse", "kIsNull"} -> mergeWith(other, this)
    [] other.kind = "kIsNotNull" -> [this EXCEPT !.nullAllowed_ = FALSE]
    [] other.kind = "kBigintRange" ->
         HashTable_mergeWithMinMax(this, Max2(this.min_, other.lower_),
                                   Min2(this.max_, other.upper_), other)
    [] other.kind = "kBigintValuesUsingHashTable" ->
         HashTable_mergeWithMinMax(this, Max2(this.min_, other.min_),
                                   Min2(this.max_, other.max_), other)
    [] other.kind = "kBigintValuesUsingBitmask" -> mergeWith(other, this)
    [] other.kind = "kBigintMultiRange" ->
         LET marker == IF this.containsEmptyMarker_ /\ testInt64(other, kEmptyMarker)
                         THEN <<kEmptyMarker>>
                         ELSE <<>>
             valuesToKeep == HashTable_mergeRanges(this, other.ranges_, 1, marker)
             bothNullAllowed == this.nullAllowed_ /\ testNull(other)
         IN createBigintValues(valuesToKeep, bothNullAllowed)
    [] OTHER -> Failure("VELOX_UNREACHABLE")

RECURSIVE Bitmask_keep(_, _, _, _, _)
\* The loop "for (auto i = min; i <= max; ++i)": appends to valuesToKeep the
\* values i whose bit is set and that the filter other accepts.
Bitmask_keep(this, other, i, max, valuesToKeep) ==
  IF ~(i <= max)
    THEN valuesToKeep
    ELSE IF (i - this.min_) \in this.bitmask_ /\ testInt64(other, i)
      THEN Bitmask_keep(this, other, i + 1, max, Append(valuesToKeep, i))
      ELSE Bitmask_keep(this, other, i + 1, max, valuesToKeep)

\* BigintValuesUsingBitmask::mergeWith(min, max, other).
Bitmask_mergeWithMinMax(this, min, max, other) ==
  LET bothNullAllowed == this.nullAllowed_ /\ testNull(other)
      valuesToKeep == Bitmask_keep(this, other, min, max, <<>>)
  IN createBigintValues(valuesToKeep, bothNullAllowed)

RECURSIVE Bitmask_mergeRanges(_, _, _, _)
\* BigintValuesUsingBitmask::mergeWith, case kBigintMultiRange: the loop over
\* the children of the other filter, from child k on.
Bitmask_mergeRanges(this, ranges, k, valuesToKeep) ==
  IF k > Len(ranges)
    THEN valuesToKeep
    ELSE LET min == Max2(this.min_, ranges[k].lower_)
             max == Min2(this.max_, ranges[k].upper_)
         IN Bitmask_mergeRanges(this, ranges, k + 1,
              Bitmask_keep(this, ranges[k], min, max, valuesToKeep))

Bitmask_mergeWith(this, other) ==
  CASE other.kind \in {"kAlwaysTrue", "kAlwaysFalse", "kIsNull"} -> mergeWith(other, this)
    [] other.kind = "kIsNotNull" -> [this EXCEPT !.nullAllowed_ = FALSE]
    [] other.kind = "kBigintRange" ->
         Bitmask_mergeWithMinMax(this, Max2(this.min_, other.lower_),
                                 Min2(this.max_, other.upper_), other)
    [] other.kind \in {"kBigintValuesUsingHashTable", "kBigintValuesUsingBitmask"} ->
         Bitmask_mergeWithMinMax(this, Max2(this.min_, other.min_),
                                 Min2(this.max_, other.max_), other)
    [] other.kind = "kBigintMultiRange" ->
         LET valuesToKeep == Bitmask_mergeRanges(this, other.ranges_, 1, <<>>)
             bothNullAllowed == this.nullAllowed_ /\ testNull(other)
         IN createBigintValues(valuesToKeep, bothNullAllowed)
    [] OTHER -> Failure("VELOX_UNREACHABLE")

RECURSIVE BigintMultiRange_mergeRanges(_, _, _, _)
\* BigintMultiRange::mergeWith, case kBigintMultiRange: the loop over the
\* children of this filter, from child k on.
BigintMultiRange_mergeRanges(ranges, other, k, newRanges) ==
  IF k > Len(ranges)
    THEN Vector(newRanges)
    ELSE LET merged == mergeWith(ranges[k], other)
         IN IF IsFailure(merged)
              THEN merged
            ELSE IF merged.kind = "kBigintRange"
              THEN BigintMultiRange_mergeRanges(ranges, other, k + 1,
                     Append(newRanges, toBigintRange(merged)))
            ELSE IF merged.kind = "kBigintMultiRange"
              THEN BigintMultiRange_mergeRanges(ranges, other, k + 1,
                     newRanges \o merged.ranges_)
            ELSE IF merged.kind = "kAlwaysFalse"
              THEN BigintMultiRange_mergeRanges(ranges, other, k + 1, newRanges)
            ELSE Failure("VELOX_CHECK(merged->kind() == FilterKind::kAlwaysFalse)")

BigintMultiRange_mergeWith(this, other) ==
  CASE other.kind \in {"kAlwaysTrue", "kAlwaysFalse", "kIsNull"} -> mergeWith(other, this)
    [] other.kind = "kIsNotNull" -> BigintMultiRange(this.ranges_, FALSE)
    [] other.kind \in {"kBigintRange", "kBigintValuesUsingBitmask",
                       "kBigintValuesUsingHashTable"} -> mergeWith(other, this)
    [] other.kind = "kBigintMultiRange" ->
         LET newRanges == BigintMultiRange_mergeRanges(this.ranges_, other, 1, <<>>)
             bothNullAllowed == this.nullAllowed_ /\ testNull(other)
         IN IF IsFailure(newRanges)
              THEN newRanges
            ELSE IF Len(newRanges.items) = 0
              THEN nullOrFalse(bothNullAllowed)
            ELSE IF Len(newRanges.items) = 1
              THEN BigintRange(newRanges.items[1].lower_, newRanges.items[1].upper_,
                               bothNullAllowed)
            ELSE BigintMultiRange(newRanges.items, bothNullAllowed)
    [] OTHER -> Failure("VELOX_UNREACHABLE")

RECURSIVE MultiRange_mergeFilters(_, _, _, _, _)
\* MultiRange::mergeWith, case kMultiRange: the two nested loops over the
\* children, at child i of this filter and child j of the other.
MultiRange_mergeFilters(filters, filtersOther, i, j, merged) ==
  IF i > Len(filters)
    THEN Vector(merged)
  ELSE IF j > Len(filtersOther)
    THEN MultiRange_mergeFilters(filters, filtersOther, i + 1, 1, merged)
  ELSE LET innerMerged == mergeWith(filters[i], filtersOther[j])
       IN IF IsFailure(innerMerged)
            THEN innerMerged
          ELSE IF innerMerged.kind \in {"kAlwaysFalse", "kIsNull"}
            THEN MultiRange_mergeFilters(filters, filtersOther, i, j + 1, merged)
          ELSE MultiRange_mergeFilters(filters, filtersOther, i, j + 1,
                                       Append(merged, innerMerged))

MultiRange_mergeWith(this, other) ==
  CASE other.kind \in {"kAlwaysTrue", "kAlwaysFalse", "kIsNull"} -> mergeWith(other, this)
    [] other.kind = "kIsNotNull" -> clone(this, FALSE)
    [] other.kind = "kMultiRange" ->
         LET bothNullAllowed == this.nullAllowed_ /\ testNull(other)
             bothNanAllowed == this.nanAllowed_ /\ other.nanAllowed_
             merged == MultiRange_mergeFilters(this.filters_, other.filters_, 1, 1, <<>>)
         IN IF IsFailure(merged)
              THEN merged
            ELSE IF Len(merged.items) = 0
              THEN nullOrFalse(bothNullAllowed)
            ELSE IF Len(merged.items) = 1
              THEN clone(merged.items[1], bothNullAllowed)
            ELSE MultiRange(merged.items, bothNullAllowed, bothNanAllowed)
    [] OTHER -> Failure("VELOX_UNREACHABLE")

\* Filter::mergeWith: virtual dispatch on the kind of this filter.
mergeWith(this, other) ==
  CASE this.kind = "kAlwaysTrue" -> AlwaysTrue_mergeWith(this, other)
    [] this.kind = "kAlwaysFalse" -> AlwaysFalse_mergeWith(this, other)
    [] this.kind = "kIsNull" -> IsNull_mergeWith(this, other)
    [] this.kind = "kIsNotNull" -> IsNotNull_mergeWith(this, other)
    [] this.kind = "kBoolValue" -> BoolValue_mergeWith(this, other)
    [] this.kind = "kBigintRange" -> BigintRange_mergeWith(this, other)
    [] this.kind = "kBigintValuesUsingHashTable" -> HashTable_mergeWith(this, other)
    [] this.kind = "kBigintValuesUsingBitmask" -> Bitmask_mergeWith(this, other)
    [] this.kind = "kBigintMultiRange" -> BigintMultiRange_mergeWith(this, other)
    [] this.kind = "kMultiRange" -> MultiRange_mergeWith(this, other)
    [] OTHER -> Failure("mergeWith is not supported")

\* ------------------------------------------------- testDouble / testFloat

\* A double (or float) argument: NaN, or the number v.
NaN == [nan |-> TRUE, v |-> 0]

Double(x) == [nan |-> FALSE, v |-> x]

\* The answer of a test that returned.
Returned(answer) == [kind |-> "bool", value |-> answer]

RECURSIVE testDouble(_, _)

\* MultiRange::testDouble, the loop over filters_ from child k on.
RECURSIVE MultiRange_anyTestDouble(_, _, _)
MultiRange_anyTestDouble(filters, value, k) ==
  IF k > Len(filters)
    THEN Returned(FALSE)
    ELSE LET r == testDouble(filters[k], value)
         IN IF IsFailure(r) \/ r.value
              THEN r
              ELSE MultiRange_anyTestDouble(filters, value, k + 1)

MultiRange_testDouble(f, value) ==
  IF value.nan
    THEN Returned(f.nanAllowed_)
    ELSE MultiRange_anyTestDouble(f.filters_, value, 1)

\* Filter::testDouble: the filters without a value domain answer for every
\* value, MultiRange overrides it, and the integer and boolean filters keep
\* the base implementation, which fails.
testDouble(f, value) ==
  CASE f.kind = "kMultiRange" -> MultiRange_testDouble(f, value)
    [] f.kind \in {"kAlwaysTrue", "kIsNotNull"} -> Returned(TRUE)
    [] f.kind \in {"kAlwaysFalse", "kIsNull"} -> Returned(FALSE)
    [] OTHER -> Failure("testDouble() is not supported")

\* MultiRange::testFloat has the body of MultiRange::testDouble.
testFloat(f, value) == testDouble(f, value)

\* =================================================================== inputs

\* Sequences of length n over S in non-decreasing order.
NonDecreasing(S, n) ==
  {s \in [1 .. n -> S] : \A i \in 1 .. n - 1 : s[i] <= s[i + 1]}

\* Sequences of length n over S in strictly increasing order.
Increasing(S, n) ==
  {s \in [1 .. n -> S] : \A i \in 1 .. n - 1 : s[i] < s[i + 1]}

\* Values probed with testInt64.
Probes == {MinInt64, MinInt64 + 1, kEmptyMarker, 0, 1, 2, 3, 4, 5, MaxInt64 - 1, MaxInt64}

RangeBounds == {MinInt64, 1, 2, 4, MaxInt64}

BitmaskVals == {1, 2, 3, 4}

HashVals == {MinInt64, kEmptyMarker, 1, 3, MaxInt64}

MultiBounds == {1, 2, 3}

BigintRangeInputs ==
  {BigintRange(lo, hi, n) : lo \in RangeBounds, hi \in RangeBounds, n \in BOOLEAN}
    \ {Failure("BigintRange: lower > upper")}

\* Bitmask filters built by the constructor from vectors of distinct values,
\* min and max being the least and the greatest value.
BitmaskInputs ==
  UNION {{BigintValuesUsingBitmask(vs[1], vs[len], vs, n) :
            vs \in Increasing(BitmaskVals, len), n \in BOOLEAN} : len \in 2 .. MaxValues}

\* Hash-table filters built by the constructor from vectors of distinct
\* values, min and max being the least and the greatest value.
HashTableInputs ==
  UNION {{BigintValuesUsingHashTable(vs[1], vs[len], vs, n) :
            vs \in Increasing(HashVals, len), n \in BOOLEAN} : len \in 2 .. MaxValues}

\* The child ranges [bs[1], bs[2]], [bs[3], bs[4]], ... with null bits ns.
Children(bs, ns) ==
  [k \in 1 .. Len(ns) |-> BigintRange(bs[2 * k - 1], bs[2 * k], ns[k])]

\* BigintMultiRange filters accepted by the constructor, with bounds in B and
\* at most maxLen children: the children may touch (next.lower = prev.upper)
\* and each child has its own null bit.
MultiRangesOver(B, maxLen) ==
  UNION {{BigintMultiRange(Children(bs, ns), n) :
            bs \in NonDecreasing(B, 2 * len),
            ns \in [1 .. len -> BOOLEAN], n \in BOOLEAN} : len \in 2 .. maxLen}

BigintMultiRangeInputs == MultiRangesOver(MultiBounds, MaxRanges)

BoolValueInputs == {BoolValue(v, n) : v \in BOOLEAN, n \in BOOLEAN}

MultiRangeChildren ==
  {BigintRange(1, 2, FALSE), BigintRange(2, 3, TRUE), BigintRange(4, 4, FALSE)}

MultiRangeInputs ==
  {MultiRange(fs, n, nan) :
     fs \in [1 .. 2 -> MultiRangeChildren], n \in BOOLEAN, nan \in BOOLEAN}

IntegerKinds ==
  {"kBigintRange", "kBigintValuesUsingBitmask", "kBigintValuesUsingHashTable",
   "kBigintMultiRange"}

IntegerInputs ==
  BigintRangeInputs \cup BitmaskInputs \cup HashTableInputs \cup BigintMultiRangeInputs

NullInputs == {IsNull, IsNotNull}

\* The pairs of filters whose merge the code implements.
MergeInputs ==
  (IntegerInputs \X IntegerInputs)
    \cup (BoolValueInputs \X BoolValueInputs)
    \cup (MultiRangeInputs \X MultiRangeInputs)
    \cup (NullInputs \X (NullInputs \cup BoolValueInputs \cup IntegerInputs \cup MultiRangeInputs))
    \cup ((BoolValueInputs \cup IntegerInputs \cup MultiRangeInputs) \X NullInputs)

\* ============================================================ state machine

VARIABLES
  pc,        \* the last operation performed ("ready" before the first)
  a,         \* the filter the operation is called on
  b,         \* the other filter of a merge
  args,      \* the arguments of the last probe or of the factory
  result,    \* what the last operation returned
  reversed   \* what b.mergeWith(a) returned

vars == <<pc, a, b, args, result, reversed>>

None == [kind |-> "none"]

\* ---------------------------------------------------------- Spec: mergeWith

Init ==
  /\ pc = "ready"
  /\ \E p \in MergeInputs : a = p[1] /\ b = p[2]
  /\ args = None
  /\ result = None
  /\ reversed = None

\* result = a.mergeWith(b)
MergeWith ==
  /\ pc = "ready"
  /\ result' = mergeWith(a, b)
  /\ pc' = "merged"
  /\ UNCHANGED <<a, b, args, reversed>>

\* reversed = b.mergeWith(a)
MergeReversed ==
  /\ pc = "merged"
  /\ reversed' = mergeWith(b, a)
  /\ pc' = "reversed"
  /\ UNCHANGED <<a, b, args, result>>

Next == MergeWith \/ MergeReversed

Spec == Init /\ [][Next]_vars

\* ------------------------------------------------ SpecCreate: the factory

CreateVals == {MinInt64, kEmptyMarker, -1, 0, 1, 2, 2100, MaxInt64}

\* Vectors long enough for the density rule "range < |values| * 4 * 64" to
\* decide: 0, 1, ..., 7 followed by one far value.
DenseVectors ==
  {[i \in 1 .. 9 |-> IF i < 9 THEN i - 1 ELSE far] : far \in {2100, 2400}}

CreateInputs ==
  UNION {[1 .. len -> CreateVals] : len \in 0 .. MaxValues} \cup DenseVectors

InitCreate ==
  /\ pc = "ready"
  /\ a = None
  /\ b = None
  /\ \E vs \in CreateInputs, n \in BOOLEAN : args = [values |-> vs, nullAllowed |-> n]
  /\ result = None
  /\ reversed = None

\* result = createBigintValues(values, nullAllowed)
CreateBigintValues ==
  /\ pc = "ready"
  /\ result' = createBigintValues(args.values, args.nullAllowed)
  /\ pc' = "created"
  /\ UNCHANGED <<a, b, args, reversed>>

NextCreate == CreateBigintValues

SpecCreate == InitCreate /\ [][NextCreate]_vars

\* ------------------------------------- SpecTest: scalar and range probes

TestMultiBounds == {1, 2, 3, 5}

TestInputs ==
  BitmaskInputs \cup HashTableInputs \cup MultiRangesOver(TestMultiBounds, MaxTestRanges)

InitTest ==
  /\ pc = "ready"
  /\ a \in TestInputs
  /\ b = None
  /\ args = None
  /\ result = None
  /\ reversed = None

\* result = a.testInt64(value)
TestInt64 ==
  /\ pc = "ready"
  /\ \E value \in Probes :
       /\ args' = [value |-> value]
       /\ result' = testInt64(a, value)
  /\ pc' = "testInt64"
  /\ UNCHANGED <<a, b, reversed>>

\* result = a.testInt64Range(min, max, hasNull)
TestInt64Range ==
  /\ pc = "ready"
  /\ \E min \in Probes, max \in Probes, hasNull \in BOOLEAN :
       /\ min <= max
       /\ args' = [min |-> min, max |-> max, hasNull |-> hasNull]
       /\ result' = testInt64Range(a, min, max, hasNull)
  /\ pc' = "testInt64Range"
  /\ UNCHANGED <<a, b, reversed>>

NextTest == TestInt64 \/ TestInt64Range

SpecTest == InitTest /\ [][NextTest]_vars

\* ------------------------------------------------- SpecBytes: BytesRange

Bytes == {1, 2}

ByteStrings == UNION {[1 .. len -> Bytes] : len \in 0 .. MaxBytesLen}

OptionalBytes == {NoBytes} \cup {SomeBytes(v) : v \in ByteStrings}

\* Bounded, lower-unbounded and upper-unbounded ranges; an absent bound is
\* the empty string.
BytesRangeInputs ==
  ({BytesRange(lo, FALSE, le, hi, FALSE, he, n) :
      lo \in ByteStrings, hi \in ByteStrings, le \in BOOLEAN, he \in BOOLEAN,
      n \in BOOLEAN}
   \cup {BytesRange(<<>>, TRUE, FALSE, hi, FALSE, he, n) :
           hi \in ByteStrings, he \in BOOLEAN, n \in BOOLEAN}
   \cup {BytesRange(lo, FALSE, le, <<>>, TRUE, FALSE, n) :
           lo \in ByteStrings, le \in BOOLEAN, n \in BOOLEAN})
    \ {Failure("BytesRange: lower > upper")}

InitBytes ==
  /\ pc = "ready"
  /\ a \in BytesRangeInputs
  /\ b = None
  /\ args = None
  /\ result = None
  /\ reversed = None

\* result = a.testBytes(value)
TestBytes ==
  /\ pc = "ready"
  /\ \E value \in ByteStrings :
       /\ args' = [value |-> value]
       /\ result' = BytesRange_testBytes(a, value)
  /\ pc' = "testBytes"
  /\ UNCHANGED <<a, b, reversed>>

\* result = a.testBytesRange(min, max, hasNull); a present min is not above
\* a present max.
TestBytesRange ==
  /\ pc = "ready"
  /\ \E min \in OptionalBytes, max \in OptionalBytes, hasNull \in BOOLEAN :
       /\ (min.has_value /\ max.has_value) => compareRanges(min.value, max.value) <= 0
       /\ args' = [min |-> min, max |-> max, hasNull |-> hasNull]
       /\ result' = BytesRange_testBytesRange(a, min, max, hasNull)
  /\ pc' = "testBytesRange"
  /\ UNCHANGED <<a, b, reversed>>

NextBytes == TestBytes \/ TestBytesRange

SpecBytes == InitBytes /\ [][NextBytes]_vars

\* ------------------------------- SpecLoop: the merge loops of the bitmask

\* Values next to 1 and next to the largest int64_t.
LoopVals == {1, 3, 4, MaxInt64 - 3, MaxInt64 - 1, MaxInt64}

\* What createBigintValues builds from vectors of distinct values.
LoopValueSets ==
  UNION {{createBigintValues(vs, n) : vs \in Increasing(LoopVals, len), n \in BOOLEAN} :
           len \in 2 .. MaxValues}

LoopBitmasks == {f \in LoopValueSets : f.kind = "kBigintValuesUsingBitmask"}

LoopOthers ==
  {f \in LoopValueSets : f.kind \in {"kBigintValuesUsingBitmask", "kBigintValuesUsingHashTable"}}
    \cup ({BigintRange(lo, hi, n) : lo \in {1, MaxInt64 - 1}, hi \in {3, MaxInt64}, n \in BOOLEAN}
            \ {Failure("BigintRange: lower > upper")})
    \cup MultiRangesOver({3, MaxInt64 - 1, MaxInt64}, 2)

InitLoop ==
  /\ pc = "ready"
  /\ a \in LoopBitmasks
  /\ b \in LoopOthers
  /\ args = None
  /\ result = None
  /\ reversed = None

\* One loop "for (auto i = min; i <= max; ++i)" of a.mergeWith(b): its limits
\* and the filter that is asked testInt64(i).
Segment(min, max, other) == [min |-> min, max |-> max, other |-> other]

\* The loops a.mergeWith(b) runs: one for each child range of a
\* BigintMultiRange, one for every other integer filter.
Segments(this, other) ==
  CASE other.kind = "kBigintRange" ->
         <<Segment(Max2(this.min_, other.lower_), Min2(this.max_, other.upper_), other)>>
    [] other.kind \in {"kBigintValuesUsingHashTable", "kBigintValuesUsingBitmask"} ->
         <<Segment(Max2(this.min_, other.min_), Min2(this.max_, other.max_), other)>>
    [] other.kind = "kBigintMultiRange" ->
         [k \in 1 .. Len(other.ranges_) |->
            Segment(Max2(this.min_, other.ranges_[k].lower_),
                    Min2(this.max_, other.ranges_[k].upper_), other.ranges_[k])]

\* The state of the loop over segment k, before its first iteration.
LoopAt(segments, k, valuesToKeep, outOfBounds) ==
  [segments |-> segments, k |-> k, i |-> segments[k].min, steps |-> 0,
   finished |-> FALSE, valuesToKeep |-> valuesToKeep, outOfBounds |-> outOfBounds]

\* a.mergeWith(b) is called and reaches its first loop.
LoopEnter ==
  /\ pc = "ready"
  /\ args' = LoopAt(Segments(a, b), 1, <<>>, FALSE)
  /\ pc' = "loop"
  /\ UNCHANGED <<a, b, result, reversed>>

\* One iteration: the read of bitmask_[i - min_], the call of testInt64(i),
\* the push_back, and ++i.  An index outside the bitmask reads either bit or
\* faults.  ++i at the largest int64_t is a signed overflow: the counter wraps
\* around to the least int64_t, or the loop ends as if the counter had
\* passed max.
LoopStep ==
  /\ pc = "loop"
  /\ LET seg == args.segments[args.k]
         index == WrapInt64(args.i - a.min_)
         inBounds == index \in 0 .. (a.max_ - a.min_)
     IN /\ ~args.finished
        /\ args.i <= seg.max
        /\ args.steps < MaxLoopSteps
        /\ \/ /\ ~inBounds
              /\ pc' = "crashed"
              /\ args' = [args EXCEPT !.steps = @ + 1, !.outOfBounds = TRUE]
           \/ \E bit \in (IF inBounds THEN {index \in a.bitmask_} ELSE BOOLEAN) :
              \E wraps \in (IF args.i = MaxInt64 THEN BOOLEAN ELSE {TRUE}) :
                 /\ pc' = "loop"
                 /\ args' = [args EXCEPT
                      !.valuesToKeep = IF bit /\ testInt64(seg.other, args.i)
                                         THEN Append(@, args.i) ELSE @,
                      !.steps = @ + 1,
                      !.outOfBounds = @ \/ ~inBounds,
                      !.i = IF wraps THEN WrapInt64(@ + 1) ELSE @,
                      !.finished = ~wraps]
  /\ UNCHANGED <<a, b, result, reversed>>

\* The loop condition i <= max is false: the next loop starts, or
\* createBigintValues(valuesToKeep, bothNullAllowed) is returned.
LoopExit ==
  /\ pc = "loop"
  /\ args.finished \/ ~(args.i <= args.segments[args.k].max)
  /\ IF args.k < Len(args.segments)
       THEN /\ args' = LoopAt(args.segments, args.k + 1, args.valuesToKeep, args.outOfBounds)
            /\ pc' = "loop"
            /\ UNCHANGED result
       ELSE /\ result' = createBigintValues(args.valuesToKeep, a.nullAllowed_ /\ testNull(b))
            /\ pc' = "done"
            /\ UNCHANGED args
  /\ UNCHANGED <<a, b, reversed>>

NextLoop == LoopEnter \/ LoopStep \/ LoopExit

SpecLoop == InitLoop /\ [][NextLoop]_vars

\* =================================================================== claims

\* The values of a vector as a set, and whether they are exactly the
\* integers from the least to the greatest of them.
ValueSet(values) == {values[k] : k \in 1 .. Len(values)}

Least(S) == CHOOSE x \in S : \A y \in S : x <= y

Greatest(S) == CHOOSE x \in S : \A y \in S : y <= x

Contiguous(S) == S = Least(S) .. Greatest(S)

IsIntegerPair == a.kind \in IntegerKinds /\ b.kind \in IntegerKinds

\* The values a child range of a BigintMultiRange covers.
InsideChild(f, v) ==
  \E k \in 1 .. Len(f.ranges_) : f.ranges_[k].lower_ <= v /\ v <= f.ranges_[k].upper_

\* C1: whenever a.mergeWith(b) returns a filter for two integer filters a and
\* b, that filter accepts an int64 value v exactly when a and b both accept v.
C1_MergeValueLaw ==
  (pc = "merged" /\ IsIntegerPair /\ ~IsFailure(result)) =>
    \A v \in Probes : testInt64(result, v) = (testInt64(a, v) /\ testInt64(b, v))

\* C2: for every pair of filters whose merge is implemented, a.mergeWith(b)
\* returns a filter whose testNull() is a.testNull() AND b.testNull().
C2_MergeNullLaw ==
  pc = "merged" =>
    /\ ~IsFailure(result)
    /\ testNull(result) = (testNull(a) /\ testNull(b))

\* C3: mergeWith is total on valid integer filters: a.mergeWith(b) returns a
\* filter and never reaches a failed fatal check.
C3_MergeTotal ==
  (pc = "merged" /\ IsIntegerPair) => ~IsFailure(result)

\* C4: commutativity: a.mergeWith(b) and b.mergeWith(a) both return or both
\* fail, and when they return the two results answer testNull() and the scalar
\* tests alike.
C4_MergeCommutes ==
  (pc = "reversed" /\ a.kind # "kMultiRange" /\ b.kind # "kMultiRange") =>
    /\ IsFailure(result) = IsFailure(reversed)
    /\ ~IsFailure(result) =>
         /\ testNull(result) = testNull(reversed)
         /\ \A v \in Probes : testInt64(result, v) = testInt64(reversed, v)
         /\ \A v \in BOOLEAN : testBool(result, v) = testBool(reversed, v)

\* C5: integer range-prune soundness: when the bitmask, hash-table or
\* multi-range filter accepts some v with min <= v <= max, then
\* testInt64Range(min, max, hasNull) is true.
C5_RangePruneSound ==
  pc = "testInt64Range" =>
    ((\E v \in Probes : args.min <= v /\ v <= args.max /\ testInt64(a, v))
       => result = TRUE)

\* A value-set or multi-range filter accepted a value of a proper page range
\* without nulls, and the range test answered true.
C5_Witness ==
  /\ pc = "testInt64Range"
  /\ a.kind = "kBigintValuesUsingHashTable"
  /\ ~args.hasNull
  /\ args.min < args.max
  /\ \E v \in Probes : args.min <= v /\ v <= args.max /\ testInt64(a, v)
  /\ result = TRUE

\* C6: bytes range-prune soundness: when a BytesRange accepts some byte
\* string v that lies between the present bounds of the page summary, then
\* testBytesRange(min, max, hasNull) is true.
C6_BytesPruneSound ==
  pc = "testBytesRange" =>
    ((\E v \in ByteStrings :
        /\ args.min.has_value => compareRanges(args.min.value, v) <= 0
        /\ args.max.has_value => compareRanges(v, args.max.value) <= 0
        /\ BytesRange_testBytes(a, v))
       => result = TRUE)

Distinct(values) ==
  \A i, j \in 1 .. Len(values) : i # j => values[i] # values[j]

\* What C7 says of the filter returned for args.values.
CompactionHolds ==
  LET values == args.values
      n == Len(values)
      S == ValueSet(values)
      range == Greatest(S) - Least(S)
      dense == range <= MaxInt64 /\ (range < 32 * 64 \/ range < n * 4 * 64)
  IN IF n = 0 THEN result = nullOrFalse(args.nullAllowed)
     ELSE IF n = 1
       THEN result = [kind |-> "kBigintRange", lower_ |-> values[1],
                      upper_ |-> values[1], nullAllowed_ |-> args.nullAllowed]
     ELSE /\ (result.kind = "kBigintRange") = Contiguous(S)
          /\ (result.kind = "kBigintValuesUsingBitmask") = (~Contiguous(S) /\ dense)
          /\ (result.kind = "kBigintValuesUsingHashTable") = (~Contiguous(S) /\ ~dense)

\* C7: compaction: createBigintValues returns IsNull or AlwaysFalse for no
\* value, BigintRange(v, v) for one value, and otherwise BigintRange iff the
\* values are contiguous, BigintValuesUsingBitmask iff they are not contiguous,
\* max - min does not overflow and the density rule holds, and
\* BigintValuesUsingHashTable in every remaining case.
C7_Compaction ==
  pc = "created" => CompactionHolds

\* C7 (amended): the same for every vector of pairwise distinct values.
C7_CompactionDistinct ==
  (pc = "created" /\ Distinct(args.values)) => CompactionHolds

\* Distinct values that are neither contiguous nor dense, without overflow of
\* max - min, were put in a hash table.
C7_Witness ==
  /\ pc = "created"
  /\ Distinct(args.values)
  /\ Len(args.values) >= 2
  /\ ~SubOverflow(Greatest(ValueSet(args.values)), Least(ValueSet(args.values)))
  /\ result.kind = "kBigintValuesUsingHashTable"

CreateProbes ==
  Probes \cup CreateVals \cup {v + 1 : v \in CreateVals \ {MaxInt64}}
    \cup {v - 1 : v \in CreateVals \ {MinInt64}} \cup {2400}

\* What C8 says of the filter returned for args.values.
MembershipHolds ==
  /\ ~IsFailure(result)
  /\ testNull(result) = args.nullAllowed
  /\ \A v \in CreateProbes : testInt64(result, v) = (v \in ValueSet(args.values))

\* C8: value-set membership: the filter createBigintValues returns accepts v
\* iff v is an element of values, and accepts null iff nullAllowed.
C8_Membership ==
  pc = "created" => MembershipHolds

\* C8 (amended): the same for every vector of pairwise distinct values.
C8_MembershipDistinct ==
  (pc = "created" /\ Distinct(args.values)) => MembershipHolds

\* A hash table built from distinct values, kEmptyMarker among them, accepts
\* kEmptyMarker.
C8_Witness ==
  /\ pc = "created"
  /\ Distinct(args.values)
  /\ result.kind = "kBigintValuesUsingHashTable"
  /\ kEmptyMarker \in ValueSet(args.values)
  /\ testInt64(result, kEmptyMarker)

\* C9: BigintMultiRange search law: testInt64(v) is true iff v lies inside at
\* least one child range.
C9_SearchLaw ==
  (pc = "testInt64" /\ a.kind = "kBigintMultiRange") =>
    (result = InsideChild(a, args.value))

\* The binary search missed every lower bound and delegated to a child other
\* than the first, which accepted the value.
C9_Witness ==
  /\ pc = "testInt64"
  /\ a.kind = "kBigintMultiRange"
  /\ \A k \in 1 .. Len(a.lowerBounds_) : a.lowerBounds_[k] # args.value
  /\ args.value > a.lowerBounds_[2]
  /\ result = TRUE

\* C10: result normalisation: mergeWith never returns a BigintMultiRange with
\* a single child nor a BigintValuesUsingBitmask whose accepted values are a
\* contiguous interval min..max.
C10_MergeNormalised ==
  (pc = "merged" /\ a.kind \in IntegerKinds \cup {"kIsNotNull"}
                 /\ b.kind \in IntegerKinds \cup {"kIsNotNull"}) =>
    /\ ~(result.kind = "kBigintMultiRange" /\ Len(result.ranges_) = 1)
    /\ ~(result.kind = "kBigintValuesUsingBitmask"
         /\ result.bitmask_ = 0 .. (result.max_ - result.min_))

\* C11: for two MultiRange filters a and b, a.mergeWith(b) accepts NaN exactly
\* when a and b both allow NaN: testDouble(NaN) and testFloat(NaN) return
\* a.nanAllowed AND b.nanAllowed, however many child merges survive.
C11_MergeNanLaw ==
  (pc = "merged" /\ a.kind = "kMultiRange" /\ b.kind = "kMultiRange") =>
    /\ testDouble(result, NaN) = Returned(a.nanAllowed_ /\ b.nanAllowed_)
    /\ testFloat(result, NaN) = Returned(a.nanAllowed_ /\ b.nanAllowed_)

IsPowerOfTwo(x) == \E k \in 0 .. 31 : x = 2 ^ k

\* C12: every BigintValuesUsingHashTable built from n >= 2 values has a slot
\* count that is a power of two and is at least 3 * n.
C12_TableSize ==
  (pc = "created" /\ result.kind = "kBigintValuesUsingHashTable") =>
    /\ IsPowerOfTwo(Len(result.hashTable_))
    /\ Len(result.hashTable_) >= 3 * Len(args.values)

\* The number of iterations the loop over the current segment may take.
LoopLength ==
  LET seg == args.segments[args.k]
  IN Max2(0, seg.max - seg.min + 1)

\* C13: every loop "for i = min; i <= max; ++i" of a mergeWith call on a
\* BigintValuesUsingBitmask reads only bitmask positions in 0..max_-min_ and
\* is over after at most max - min + 1 iterations.
C13_LoopBounded ==
  /\ pc # "crashed"
  /\ pc \in {"loop", "done"} =>
       /\ ~args.outOfBounds
       /\ args.steps <= LoopLength
       /\ (pc = "loop" /\ args.steps = LoopLength) =>
            (args.finished \/ ~(args.i <= args.segments[args.k].max))

====
